---- MODULE Spec2Model ----
(***************************************************************************)
(* A model of the CART decision tree classifier (DecisionTreeClassifier)   *)
(* of the decision tree notebook: fit / build_tree / best_node_split,      *)
(* predict, and print_tree / _print_tree_aux.                              *)
(* With it, a model of simulate, the rock-paper-scissors game between two  *)
(* Markov chains of the Markov chain notebook.                             *)
(*                                                                         *)
(* Numbers.  Feature values are drawn from a grid of integers.  Every      *)
(* number the code computes from them by division (a Gini impurity, a      *)
(* weighted impurity, a midpoint threshold) is kept as an exact quotient   *)
(* [num, den], and is compared by cross multiplication; a quotient with    *)
(* den = 0 is the NaN that numpy produces for 0/0 and compares false.      *)
(* Rounding of binary floating point is not modelled.                      *)
(*                                                                         *)
(* Indices.  Python sequences are 0-based, TLA+ sequences 1-based: row i   *)
(* of the code is element i+1 here.  Feature indices and class indices     *)
(* keep the code's 0-based values; arrays indexed by class are functions   *)
(* on 0..n_classes-1.                                                      *)
(***************************************************************************)
EXTENDS Integers, Sequences, FiniteSets, TLC

\* Bounds of the model.
MaxObs == 3
MaxFeat == 2
MaxVal == 2
MaxLabel == 1
MaxDepth == 2
MaxPredRows == 1
MaxFits == 1
MaxRefits == 1
MaxIter == 4

\* Python's None, and a value that is not None: a variable or field that may
\* hold None holds None or Some(v).
None == <<>>
Some(v) == <<v>>
The(o) == o[1]

VARIABLES
    n_classes,      \* self.n_classes
    n_features,     \* self.n_features
    max_depth,      \* self.max_depth
    root,           \* self.root
    X_train,        \* the caller's observation matrix of the last fit that returned
    y_train,        \* the caller's label vector of the last fit that returned
    X_test,         \* the matrix given to the last predict
    predictions,    \* the list returned by the last predict
    fits,           \* the number of fit calls made so far
    call,           \* the last call and its arguments, as the caller passed them
    raised,         \* the exception the last call ended with, or None
    printed,        \* the lines print_tree wrote since the last fit, or None
    kept,           \* a result of predict that the caller kept, or None
    simulation,     \* the locals of the call of simulate, or None
    search          \* the locals of a call of best_node_split, or None

vars == <<n_classes, n_features, max_depth, root, X_train, y_train, X_test, predictions, fits,
          call, raised, printed, kept, simulation, search>>

\* The calls of simulate and of best_node_split that the classifier's
\* methods leave alone.
frames == <<simulation, search>>

-----------------------------------------------------------------------------
\* Exact quotients.

Rat(n, d) == [num |-> n, den |-> d]

\* a < b on floats; any comparison with NaN is false.
RatLT(a, b) == a.den # 0 /\ b.den # 0 /\ a.num * b.den < b.num * a.den

RatEQ(a, b) == a.den # 0 /\ b.den # 0 /\ a.num * b.den = b.num * a.den

\* value < threshold, value > threshold, value <= threshold for a feature
\* value (an integer of the grid) and a threshold (a quotient).
ValLT(v, t) == v * t.den < t.num
ValGT(v, t) == v * t.den > t.num
ValLE(v, t) == v * t.den <= t.num

-----------------------------------------------------------------------------
\* numpy helpers.

\* s[mask]: the elements of s whose mask entry is TRUE, in order.
RECURSIVE BoolIndex(_, _)
BoolIndex(s, mask) ==
    IF s = <<>> THEN <<>>
    ELSE LET rest == BoolIndex(Tail(s), Tail(mask))
         IN  IF Head(mask) THEN <<Head(s)>> \o rest ELSE rest

\* X[:, feature]
Column(X, feature) == [i \in 1..Len(X) |-> X[i][feature + 1]]

\* np.array([np.sum(y == c) for c in range(n_classes)])
ClassCounts(y, nc) ==
    [c \in 0..(nc - 1) |-> Cardinality({i \in 1..Len(y) : y[i] = c})]

\* np.argmax: the first index holding the maximum.
argmin(a, nc) ==
    CHOOSE c \in 0..(nc - 1) :
        /\ \A d \in 0..(nc - 1) : a[c] <= a[d]
        /\ \A d \in 0..(c - 1) : a[c] < a[d]
argmax_last(a, nc) ==
    CHOOSE c \in 0..(nc - 1) :
        /\ \A d \in 0..(nc - 1) : a[d] <= a[c]
        /\ \A d \in (c + 1)..(nc - 1) : a[d] < a[c]
argmax(a, nc) ==
    CHOOSE c \in 0..(nc - 1) :
        /\ \A d \in 0..(nc - 1) : a[d] <= a[c]
        /\ \A d \in 0..(c - 1) : a[d] < a[c]

\* np.max(y)
npmax(y) == CHOOSE m \in {y[i] : i \in 1..Len(y)} : \A i \in 1..Len(y) : y[i] <= m

\* The orders in which a sort may leave rows of equal value: np.argsort's
\* default kind is not a stable sort.
TieOrders == {"index", "reverse"}

Before(v, i, j, tie) ==
    \/ v[i] < v[j]
    \/ v[i] = v[j] /\ (IF tie = "index" THEN i < j ELSE i > j)

\* np.argsort(v): the row numbers in ascending order of value.
RECURSIVE SortFrom(_, _, _)
SortFrom(v, left, tie) ==
    IF left = {} THEN <<>>
    ELSE LET m == CHOOSE i \in left : \A j \in left \ {i} : Before(v, i, j, tie)
         IN  <<m>> \o SortFrom(v, left \ {m}, tie)

argsort(v, tie) == SortFrom(v, 1..Len(v), tie)

\* a[indices]
Take(a, indices) == [k \in 1..Len(indices) |-> a[indices[k]]]

\* np.sum(a ** 2) of an array of counts.
RECURSIVE SumSqUpTo(_, _)
SumSqUpTo(a, c) == IF c < 0 THEN 0 ELSE a[c] * a[c] + SumSqUpTo(a, c - 1)

-----------------------------------------------------------------------------
\* Gini impurity.

\* 1 - np.sum((counts / n) ** 2)
gini_index(counts, nc, n) == Rat(n * n - SumSqUpTo(counts, nc - 1), n * n)

\* (1 / n) * (n_left * gini_left + n_right * gini_right)
weighted_gini(n, n_left, gini_left, n_right, gini_right) ==
    Rat(n_left * gini_left.num * gini_right.den + n_right * gini_right.num * gini_left.den,
        n * gini_left.den * gini_right.den)

\* (sorted_observations[midpoint_id - 1] + sorted_observations[midpoint_id]) / 2
midpoint_lower(a, b) == Rat(a, 1)
midpoint_upper(a, b) == Rat(b, 1)
Midpoint(a, b) == Rat(a + b, 2)

-----------------------------------------------------------------------------
\* best_node_split.  best is the triple the loops carry:
\* best_gini, best_feature, best_threshold.

\* if sorted_observations[midpoint_id] == sorted_observations[midpoint_id - 1]: continue
skip_never(a, b) == FALSE
skip_midpoint(a, b) == a = b

\* if gini < best_gini
improves_or_ties(gini, best_gini) == ~RatLT(best_gini, gini)
improves(gini, best_gini) == RatLT(gini, best_gini)

\* best_gini = gini; best_feature = feature; best_threshold = ...
record_best_stale(best, gini, feature, threshold) ==
    [best EXCEPT !.best_feature = Some(feature), !.best_threshold = Some(threshold)]
record_best(best, gini, feature, threshold) ==
    [best_gini |-> gini, best_feature |-> Some(feature), best_threshold |-> Some(threshold)]

\* prev_observation_class = sorted_classes[midpoint_id - 1]
this_observation_class(sorted_classes, midpoint_id) == sorted_classes[midpoint_id + 1]
prev_observation_class(sorted_classes, midpoint_id) == sorted_classes[midpoint_id]

\* One pass of the body of "for midpoint_id in range(1, n_observations)":
\* the counts and the best triple after the pass, and the two sizes the
\* pass divided by.
midpoint_step(feature, sorted_observations, sorted_classes, n_observations, nc, midpoint_id, left_class_counts, right_class_counts, best) ==
    LET prev_class == prev_observation_class(sorted_classes, midpoint_id)
        lcc == [left_class_counts EXCEPT ![prev_class] = @ + 1]
        rcc == [right_class_counts EXCEPT ![prev_class] = @ - 1]
        n_observations_left == midpoint_id
        n_observations_right == n_observations - n_observations_left
        gini_left == gini_index(lcc, nc, n_observations_left)
        gini_right == gini_index(rcc, nc, n_observations_right)
        gini == weighted_gini(n_observations, n_observations_left, gini_left,
                              n_observations_right, gini_right)
        next ==
          IF skip_midpoint(sorted_observations[midpoint_id + 1],
                           sorted_observations[midpoint_id])
          THEN best
          ELSE IF improves(gini, best.best_gini)
               THEN record_best(best, gini, feature,
                                Midpoint(sorted_observations[midpoint_id],
                                         sorted_observations[midpoint_id + 1]))
               ELSE best
    IN  [left_class_counts |-> lcc, right_class_counts |-> rcc,
         n_observations_left |-> n_observations_left,
         n_observations_right |-> n_observations_right,
         best |-> next]

RECURSIVE midpoint_loop(_, _, _, _, _, _, _, _, _)
midpoint_loop(feature, sorted_observations, sorted_classes, n_observations, nc, midpoint_id, left_class_counts, right_class_counts, best) ==
    IF midpoint_id >= n_observations THEN best
    ELSE
      LET step == midpoint_step(feature, sorted_observations, sorted_classes, n_observations,
                                nc, midpoint_id, left_class_counts, right_class_counts, best)
      IN  midpoint_loop(feature, sorted_observations, sorted_classes, n_observations, nc,
                        midpoint_id + 1, step.left_class_counts, step.right_class_counts,
                        step.best)

\* The locals the body of "for feature in range(self.n_features)" sets
\* before it walks the midpoints.
feature_entry(X, y, nc, feature, tie) ==
    LET sorted_indices == argsort(Column(X, feature), tie)
    IN  [sorted_indices |-> sorted_indices,
         sorted_observations |-> Take(Column(X, feature), sorted_indices),
         sorted_classes |-> Take(y, sorted_indices),
         left_class_counts |-> [c \in 0..(nc - 1) |-> 0],
         right_class_counts |-> ClassCounts(y, nc)]

RECURSIVE feature_loop(_, _, _, _, _, _, _)
feature_loop(X, y, nc, nf, feature, best, tie) ==
    IF feature >= nf THEN best
    ELSE
      LET entry == feature_entry(X, y, nc, feature, tie)
      IN  feature_loop(X, y, nc, nf, feature + 1,
                       midpoint_loop(feature, entry.sorted_observations, entry.sorted_classes,
                                     Len(X), nc, 1, entry.left_class_counts,
                                     entry.right_class_counts, best),
                       tie)

\* best_gini = gini_index(class_counts, n_observations); best_feature = None;
\* best_threshold = None
best_entry(X, y, nc) ==
    [best_gini |-> gini_index(ClassCounts(y, nc), nc, Len(X)),
     best_feature |-> None,
     best_threshold |-> None]

best_node_split(X, y, nc, nf, tie) ==
    LET best == feature_loop(X, y, nc, nf, 0, best_entry(X, y, nc), tie)
    IN  [best_feature |-> best.best_feature, best_threshold |-> best.best_threshold]

-----------------------------------------------------------------------------
\* build_tree.  A node is the namedtuple Node; rows is not a field of the
\* namedtuple: it records the X of the build_tree call that made the node, as
\* the numbers its rows have in the caller's matrix, in order.

Node(threshold, feature_index, majority_class, left, right, rows) ==
    [threshold |-> threshold, feature_index |-> feature_index,
     majority_class |-> majority_class, left |-> left, right |-> right,
     rows |-> rows]

\* X[:, best_feature] < best_threshold
left_mask(X, best_feature, best_threshold) ==
    [i \in 1..Len(X) |-> ValLT(X[i][best_feature + 1], best_threshold)]

\* X[:, best_feature] > best_threshold
right_mask(X, best_feature, best_threshold) ==
    [i \in 1..Len(X) |-> ValGT(X[i][best_feature + 1], best_threshold)]

\* if depth < self.max_depth
may_split_at_bound(depth, md) == depth <= md
may_split(depth, md) == depth < md

RECURSIVE build_tree(_, _, _, _, _, _, _, _)
build_tree(X, y, rows, depth, nc, nf, md, tie) ==
    LET class_counts == ClassCounts(y, nc)
        majority_class == argmax(class_counts, nc)
    IN  IF may_split(depth, md)
        THEN LET split == best_node_split(X, y, nc, nf, tie)
             IN  IF split.best_feature # None
                 THEN LET lm == left_mask(X, The(split.best_feature), The(split.best_threshold))
                          rm == right_mask(X, The(split.best_feature), The(split.best_threshold))
                          left == build_tree(BoolIndex(X, lm), BoolIndex(y, lm),
                                             BoolIndex(rows, lm), depth + 1, nc, nf, md, tie)
                          right == build_tree(BoolIndex(X, rm), BoolIndex(y, rm),
                                              BoolIndex(rows, rm), depth + 1, nc, nf, md, tie)
                      IN  Node(split.best_threshold, split.best_feature, majority_class,
                               Some(left), Some(right), rows)
                 ELSE Node(None, None, majority_class, None, None, rows)
        ELSE Node(None, None, majority_class, None, None, rows)

-----------------------------------------------------------------------------
\* predict.

\* if observation[node.feature_index] <= node.threshold
goes_left_strict(node, observation) ==
    ValLT(observation[The(node.feature_index) + 1], The(node.threshold))
goes_left(node, observation) ==
    ValLE(observation[The(node.feature_index) + 1], The(node.threshold))

\* The while loop of predict for one observation.
RECURSIVE descend(_, _)
descend(node, observation) ==
    IF node.left # None
    THEN IF goes_left(node, observation)
         THEN descend(The(node.left), observation)
         ELSE descend(The(node.right), observation)
    ELSE node.majority_class

\* predictions = []; predictions.append(node.majority_class), for each
\* observation in X
predict_appending(tree, X) == predictions \o [i \in 1..Len(X) |-> descend(tree, X[i])]
predict_reversed(tree, X) == [i \in 1..Len(X) |-> descend(tree, X[Len(X) + 1 - i])]
predict_all(tree, X) == [i \in 1..Len(X) |-> descend(tree, X[i])]

-----------------------------------------------------------------------------
\* print_tree.  A string is the sequence of its characters.

\* k * ch; a count that is not positive gives the empty string.
Repeat(ch, k) == IF k > 0 THEN [i \in 1..k |-> ch] ELSE <<>>

Digit(d) == <<"0", "1", "2", "3", "4", "5", "6", "7", "8", "9">>[d + 1]

\* An integer in an f-string: its decimal digits.
RECURSIVE format_int(_)
format_int(k) ==
    IF k < 0 THEN <<"-">> \o format_int(0 - k)
    ELSE IF k < 10 THEN <<Digit(k)>>
    ELSE format_int(k \div 10) \o <<Digit(k % 10)>>

\* A float in an f-string: the shortest decimal that reads back as the float.
\* A midpoint of two values of the grid is a whole number of halves.
format_float(t) ==
    LET halves == (2 * t.num) \div t.den
    IN  format_int(halves \div 2) \o <<".">> \o (IF halves % 2 = 0 THEN <<"0">> ELSE <<"5">>)

\* f'c: {node.majority_class}'
leaf_line(node) == <<"c", ":", " ">> \o format_int(node.majority_class)

\* f'f: {node.feature_index}, t: {node.threshold}'
split_label(node) ==
    <<"f", ":", " ">> \o format_int(The(node.feature_index))
        \o <<",", " ", "t", ":", " ">> \o format_float(The(node.threshold))

\* middle = width // 2
leaf_middle_low(width) == (width - 1) \div 2
leaf_middle(width) == width \div 2

\* (x + 1) * ' ' + (n - x - 1) * '_' + s + y * '_' + (m - y) * ' '
first_line_centred(x, n, s, y, m) ==
    LET span == (n + Len(s) + y) - x - 1
        before == (span - Len(s)) \div 2
    IN  Repeat(" ", x + 1) \o Repeat("_", before) \o s
            \o Repeat("_", span - Len(s) - before) \o Repeat(" ", m - y)
first_line(x, n, s, y, m) ==
    Repeat(" ", x + 1) \o Repeat("_", n - x - 1) \o s \o Repeat("_", y) \o Repeat(" ", m - y)

\* x * ' ' + '/' + (n - x - 1 + u + y) * ' ' + '\\' + (m - y - 1) * ' '
second_line_at_block(x, n, u, y, m) ==
    Repeat(" ", x) \o <<"/">> \o Repeat(" ", n - x - 1 + u) \o <<"\\">> \o Repeat(" ", m - 1)
second_line(x, n, u, y, m) ==
    Repeat(" ", x) \o <<"/">> \o Repeat(" ", n - x - 1 + u + y) \o <<"\\">>
        \o Repeat(" ", m - y - 1)

\* lines += [width * ' '] * k
pad_nothing(lines, width, k) == lines
pad(lines, width, k) == lines \o (IF k > 0 THEN [i \in 1..k |-> Repeat(" ", width)] ELSE <<>>)

\* [a + u * ' ' + b for a, b in zip(left, right)]
zipped_lines(left, right, u) ==
    [i \in 1..(IF Len(left) < Len(right) THEN Len(left) ELSE Len(right)) |->
        left[i] \o Repeat(" ", u) \o right[i]]

\* _print_tree_aux: the lines, the width, the height and the horizontal
\* coordinate of the root (columns are 0-based, as in the code).
RECURSIVE print_tree_aux(_)
print_tree_aux(node) ==
    IF node.right = None /\ node.left = None
    THEN LET line == leaf_line(node)
             width == Len(line)
         IN  [lines |-> <<line>>, width |-> width, height |-> 1, middle |-> leaf_middle(width)]
    ELSE LET l == print_tree_aux(The(node.left))
             r == print_tree_aux(The(node.right))
             n == l.width
             p == l.height
             x == l.middle
             m == r.width
             q == r.height
             y == r.middle
             s == split_label(node)
             u == Len(s)
             left == IF p < q THEN pad(l.lines, n, q - p) ELSE l.lines
             right == IF q < p THEN pad(r.lines, m, p - q) ELSE r.lines
         IN  [lines |-> <<first_line(x, n, s, y, m), second_line(x, n, u, y, m)>>
                            \o zipped_lines(left, right, u),
              width |-> n + m + u,
              height |-> (IF p > q THEN p ELSE q) + 2,
              middle |-> n + u \div 2]

-----------------------------------------------------------------------------
\* Inputs.

Values == 0..MaxVal
Labels == 0..MaxLabel
Matrices(n, f) == [1..n -> [1..f -> Values]]

\* Datasets named by the documentation, in units of 0.5 (the integer v
\* stands for the feature value v / 2):
\*   "concrete": X = [[1.0],[2.0],[3.0],[4.0]], y = [0,0,1,1];
\*   "tie": both features separate the classes, feature 0 at 2.5 and
\*          feature 1 at 7.5;
\*   "balanced": the only midpoint leaves both halves as mixed as the whole.
ScenarioX == <<<<2>>, <<4>>, <<6>>, <<8>>>>
ScenarioY == <<0, 0, 1, 1>>
TieX == <<<<2, 12>>, <<4, 14>>, <<6, 16>>, <<8, 18>>>>
TieY == <<0, 0, 1, 1>>
BalancedX == <<<<0>>, <<0>>, <<2>>, <<2>>>>
BalancedY == <<0, 1, 0, 1>>

Scenarios ==
    { [X |-> ScenarioX, y |-> ScenarioY],
      [X |-> TieX, y |-> TieY],
      [X |-> BalancedX, y |-> BalancedY] }

\* predict([[1.5],[3.5]]) of the concrete scenario.
ScenarioTest == <<<<3>>, <<7>>>>

-----------------------------------------------------------------------------
\* The classifier.

Call(op, X, y, md) == [op |-> op, X |-> X, y |-> y, max_depth |-> md]

\* The attributes of self.
Self == [n_classes |-> n_classes, n_features |-> n_features,
         max_depth |-> max_depth, root |-> root]

SelfBecomes(self) ==
    /\ n_classes' = self.n_classes
    /\ n_features' = self.n_features
    /\ max_depth' = self.max_depth
    /\ root' = self.root

Init ==
    /\ n_classes = None
    /\ n_features = None
    /\ max_depth = None
    /\ root = None
    /\ X_train = <<>>
    /\ y_train = <<>>
    /\ X_test = <<>>
    /\ predictions = <<>>
    /\ fits = 0
    /\ call = Call("none", <<>>, <<>>, None)
    /\ raised = None
    /\ printed = None
    /\ kept = None
    /\ simulation = None
    /\ search = None

\* The caller's X and y after fit.  No statement of fit, build_tree or
\* best_node_split assigns to an element of X or y: argsort returns indices,
\* X[sorted_indices, feature], y[sorted_indices], X[mask, :] and y[mask] are
\* new arrays.
arrays_sorted_in_place(X, y) ==
    [X |-> [i \in 1..Len(X) |->
               [X[i] EXCEPT ![1] = Take(Column(X, 0), argsort(Column(X, 0), "index"))[i]]],
     y |-> y]
arrays_after_fit(X, y) == [X |-> X, y |-> y]

FitWith(X, y, md, tie) ==
    /\ fits' = fits + 1
    /\ n_features' = Some(Len(X[1]))
    /\ n_classes' = Some(npmax(y) + 1)
    /\ max_depth' = Some(md)
    /\ root' = Some(build_tree(X, y, [i \in 1..Len(X) |-> i], 0,
                             npmax(y) + 1, Len(X[1]), md, tie))
    /\ X_train' = arrays_after_fit(X, y).X
    /\ y_train' = arrays_after_fit(X, y).y
    /\ X_test' = <<>>
    /\ predictions' = <<>>
    /\ call' = Call("fit", X, y, Some(md))
    /\ raised' = None
    /\ printed' = None
    /\ kept' = None
    /\ UNCHANGED frames

Fit ==
    /\ fits < MaxFits
    /\ \E n \in 1..MaxObs, f \in 1..MaxFeat, md \in 0..MaxDepth, tie \in TieOrders :
          \E X \in Matrices(n, f), y \in [1..n -> Labels] :
              FitWith(X, y, md, tie)

FitScenario ==
    /\ fits < MaxFits
    /\ \E d \in Scenarios, md \in 0..MaxDepth, tie \in TieOrders : FitWith(d.X, d.y, md, tie)

\* fit again on the arrays the tree was fitted on.
Refit ==
    /\ root # None
    /\ fits < MaxFits + MaxRefits
    /\ \E md \in 0..MaxDepth, tie \in TieOrders : FitWith(X_train, y_train, md, tie)

\* The exception fit ends with, or None.  np.max of an empty y raises
\* ValueError; y[sorted_indices] raises IndexError when y is shorter than X;
\* y[left_mask] raises IndexError when y is longer than X.  A negative
\* max_depth raises nothing.
fit_raises(X, y, nf, md, tie) ==
    IF Len(y) = 0 THEN Some("ValueError")
    ELSE IF ~may_split(0, md) THEN None
    ELSE IF Len(y) < Len(X) THEN Some("IndexError")
    ELSE IF Len(y) > Len(X) /\ best_node_split(X, y, npmax(y) + 1, nf, tie).best_feature # None
         THEN Some("IndexError")
    ELSE None

\* Arguments of fit that the documentation calls invalid: an empty dataset,
\* a y shorter or longer than X, a negative max_depth.
InvalidFits ==
    {[X |-> <<>>, y |-> <<>>, n_features |-> f, max_depth |-> MaxDepth] : f \in 1..MaxFeat}
    \cup {[X |-> d.X, y |-> d.y, n_features |-> Len(d.X[1]), max_depth |-> 0 - 1] : d \in Scenarios}
    \cup {[X |-> d.X, y |-> SubSeq(d.y, 1, Len(d.y) - 1), n_features |-> Len(d.X[1]),
           max_depth |-> md] : d \in Scenarios, md \in 0..1}
    \cup {[X |-> d.X, y |-> d.y \o <<c>>, n_features |-> Len(d.X[1]),
           max_depth |-> md] : d \in Scenarios, md \in 0..1, c \in Labels}

FitInvalidWith(X, y, nf, md, tie) ==
    LET exc == fit_raises(X, y, nf, md, tie)
    IN  /\ fits' = fits + 1
        /\ n_features' = Some(nf)
        /\ IF Len(y) = 0
           THEN UNCHANGED <<n_classes, max_depth>>
           ELSE n_classes' = Some(npmax(y) + 1) /\ max_depth' = Some(md)
        /\ IF exc = None
           THEN /\ root' = Some(build_tree(X, y, [i \in 1..Len(X) |-> i], 0,
                                           npmax(y) + 1, nf, md, tie))
                /\ X_train' = arrays_after_fit(X, y).X
                /\ y_train' = arrays_after_fit(X, y).y
                /\ X_test' = <<>>
                /\ predictions' = <<>>
                /\ printed' = None
                /\ kept' = None
           ELSE UNCHANGED <<root, X_train, y_train, X_test, predictions, printed, kept>>
        /\ call' = Call("fit", X, y, Some(md))
        /\ raised' = exc
        /\ UNCHANGED frames

FitInvalid ==
    /\ fits < MaxFits + MaxRefits
    /\ \E a \in InvalidFits, tie \in TieOrders :
          FitInvalidWith(a.X, a.y, a.n_features, a.max_depth, tie)

\* self after predict.  predict assigns only its locals (node, predictions);
\* Node is a namedtuple, whose fields cannot be assigned.
after_predict_walked(self, X) ==
    [self EXCEPT !.root = IF The(self.root).left # None THEN The(self.root).left ELSE self.root]
after_predict(self, X) == self

PredictCall(X) ==
    /\ root # None
    /\ X_test' = X
    /\ predictions' = predict_all(The(root), X)
    /\ SelfBecomes(after_predict(Self, X))
    /\ call' = Call("predict", X, <<>>, None)
    /\ raised' = None
    /\ UNCHANGED <<X_train, y_train, fits, printed, frames>>

PredictWith(X) ==
    /\ PredictCall(X)
    /\ UNCHANGED kept

Predict ==
    /\ root # None
    /\ \E m \in 1..MaxPredRows : \E X \in Matrices(m, The(n_features)) : PredictWith(X)

\* predict on the matrix the tree was fitted on.
PredictTrain ==
    /\ root # None
    /\ PredictWith(X_train)

PredictScenario ==
    /\ n_features = Some(1)
    /\ PredictWith(ScenarioTest)

\* predict on the first row of the matrix the tree was fitted on, the
\* caller keeping the matrix passed and the list returned.
PredictKeep ==
    /\ root # None
    /\ kept = None
    /\ PredictCall(SubSeq(X_train, 1, 1))
    /\ kept' = Some([X |-> SubSeq(X_train, 1, 1), predictions |-> predictions'])

\* predict once more on the matrix the caller kept.
PredictAgain ==
    /\ kept # None
    /\ PredictWith(The(kept).X)

\* observation[node.feature_index] raises IndexError when the observation
\* has no such column.
RECURSIVE walk_raises(_, _)
walk_raises(node, observation) ==
    IF node.left # None
    THEN IF The(node.feature_index) + 1 > Len(observation) THEN TRUE
         ELSE IF goes_left(node, observation)
              THEN walk_raises(The(node.left), observation)
              ELSE walk_raises(The(node.right), observation)
    ELSE FALSE

predict_raises(tree, X) ==
    IF \E i \in 1..Len(X) : walk_raises(tree, X[i]) THEN Some("IndexError") ELSE None

\* One-row matrices with a column fewer or a column more than n_features,
\* every column holding the same value.
WrongColumns(nf) == {<<[j \in 1..k |-> v]>> : k \in {nf - 1, nf + 1}, v \in Values}

PredictWrongColumns ==
    /\ root # None
    /\ \E X \in WrongColumns(The(n_features)) :
          LET exc == predict_raises(The(root), X)
          IN  /\ X_test' = X
              /\ predictions' = IF exc = None THEN predict_all(The(root), X) ELSE predictions
              /\ SelfBecomes(after_predict(Self, X))
              /\ call' = Call("predict", X, <<>>, None)
              /\ raised' = exc
              /\ UNCHANGED <<X_train, y_train, fits, printed, kept, frames>>

\* self after print_tree.  _print_tree_aux pads, in place, the lists its
\* recursive calls returned; it assigns to no attribute of self.
after_print_tree(self) == self

PrintTree ==
    /\ root # None
    /\ printed' = Some(print_tree_aux(The(root)).lines)
    /\ SelfBecomes(after_print_tree(Self))
    /\ call' = Call("print_tree", <<>>, <<>>, None)
    /\ raised' = None
    /\ UNCHANGED <<X_train, y_train, X_test, predictions, fits, kept, frames>>

Next == Fit \/ FitScenario \/ Predict \/ PredictTrain \/ PredictScenario

Spec == Init /\ [][Next]_vars

\* fit, and fit again on the same arrays.
NextRefit == Fit \/ FitScenario \/ Refit
SpecRefit == Init /\ [][NextRefit]_vars

\* fit, then predict and print_tree in any order.
NextCalls ==
    Fit \/ FitScenario \/ PredictTrain \/ PredictScenario \/ PredictKeep \/ PredictAgain \/ PrintTree
SpecCalls == Init /\ [][NextCalls]_vars

\* fit on valid and on invalid arguments.
NextFitErrors == Fit \/ FitScenario \/ FitInvalid
SpecFitErrors == Init /\ [][NextFitErrors]_vars

\* fit, then predict on a matrix of the wrong width.
NextPredictErrors == Fit \/ FitScenario \/ PredictWrongColumns
SpecPredictErrors == Init /\ [][NextPredictErrors]_vars

\* fit, then print_tree.
NextRender == Fit \/ FitScenario \/ PrintTree
SpecRender == Init /\ [][NextRender]_vars

-----------------------------------------------------------------------------
\* simulate (markov_chain_rps.ipynb): rock-paper-scissors between two Markov
\* chains, player 'A' learning player 'B''s transition matrix when learn is
\* set.  simulation holds the locals of the call.

\* states = list(states_to_indices.keys())
states == <<"R", "P", "S">>

\* states_to_indices = {'R': 0, 'P': 1, 'S': 2}
states_to_indices(state) == CHOOSE k \in 0..2 : states[k + 1] = state

\* beats = {'R': ['S'], 'P': ['R'], 'S': ['P']}; beats[action][0]
beats(action) == CASE action = "R" -> "S" [] action = "P" -> "R" [] action = "S" -> "P"

compare(action_A, action_B) ==
    IF action_B = beats(action_A) THEN "A"
    ELSE IF action_A = beats(action_B) THEN "B"
    ELSE "draw"

\* transition_prob_B of the learning run, in hundredths.
transition_prob_B == <<<<10, 10, 80>>, <<70, 5, 25>>, <<10, 90, 0>>>>

\* transition_prob_A: rows drawn from np.random.uniform, every entry positive.
transition_prob_A == <<<<1, 1, 1>>, <<1, 1, 1>>, <<1, 1, 1>>>>

\* np.random.choice(states, p=p): any state whose weight is not zero.
choice(p) == {states[k] : k \in {j \in 1..3 : p[j] > 0}}

\* np.random.choice(states)
choice_uniform == {states[k] : k \in 1..3}

\* The locals before the first game.  counts_B and prev_state_B_index exist
\* only if learn; played_B is not a local: it records B's action of every
\* game played, in order.
simulate_entry(init_state_A, init_state_B, learn, n_iter) ==
    [outcomes |-> <<>>,
     state_A |-> init_state_A,
     state_B |-> init_state_B,
     learn |-> learn,
     n_iter |-> n_iter,
     game |-> 0,
     counts_B |-> IF learn THEN Some([i \in 1..3 |-> [j \in 1..3 |-> 0]]) ELSE None,
     prev_state_B_index |-> None,
     predicted_state_B |-> None,
     played_B |-> <<>>,
     returned |-> FALSE]

\* winner = compare(state_A, state_B); outcomes.append(winner)
play(s) ==
    [s EXCEPT !.game = @ + 1,
              !.outcomes = Append(@, compare(s.state_A, s.state_B)),
              !.played_B = Append(@, s.state_B)]

\* if learn and prev_state_B_index is None
first_game(s, state_B_index, next_A, next_B) ==
    [s EXCEPT !.prev_state_B_index = Some(state_B_index),
              !.state_A = next_A,
              !.state_B = next_B]

\* counts_B[prev_state_B_index][state_B_index] += 1
count_transition(s, state_B_index) ==
    [The(s.counts_B) EXCEPT ![The(s.prev_state_B_index) + 1][state_B_index + 1] = @ + 1]

\* if learn and prev_state_B_index is not None
learn_game(s, state_B_index, predicted, next_B) ==
    [s EXCEPT !.counts_B = Some(count_transition(s, state_B_index)),
              !.predicted_state_B = Some(predicted),
              !.prev_state_B_index = Some(state_B_index),
              !.state_A = beats(predicted),
              !.state_B = next_B]

\* else
chain_game(s, next_A, next_B) == [s EXCEPT !.state_A = next_A, !.state_B = next_B]

SimulateCall ==
    /\ simulation = None
    /\ \E init_state_A \in choice_uniform, init_state_B \in choice_uniform,
          learn \in BOOLEAN, n_iter \in 0..MaxIter :
          simulation' = Some(simulate_entry(init_state_A, init_state_B, learn, n_iter))
    /\ UNCHANGED <<n_classes, n_features, max_depth, root, X_train, y_train, X_test,
                   predictions, fits, call, raised, printed, kept, search>>

\* One pass of the body of "for game in range(1, n_iter+1)".  The two ifs
\* of the body are separate statements: the second is evaluated after the
\* first has run.
SimulateGame ==
    /\ simulation # None
    /\ The(simulation).game < The(simulation).n_iter
    /\ LET s == play(The(simulation))
           state_A_index == states_to_indices(s.state_A)
           state_B_index == states_to_indices(s.state_B)
           first == s.learn /\ s.prev_state_B_index = None
       IN  \E first_A \in choice_uniform, first_B \in choice(transition_prob_B[state_B_index + 1]) :
             /\ ~first => (first_A = s.state_A /\ first_B = CHOOSE b \in choice(transition_prob_B[state_B_index + 1]) : TRUE)
             /\ LET s1 == IF first THEN first_game(s, state_B_index, first_A, first_B) ELSE s
                IN  IF s1.learn /\ s1.prev_state_B_index # None
                    THEN \E predicted \in choice(count_transition(s1, state_B_index)[The(s1.prev_state_B_index) + 1]),
                            next_B \in choice(transition_prob_B[state_B_index + 1]) :
                            simulation' = Some(learn_game(s1, state_B_index, predicted, next_B))
                    ELSE \E next_A \in choice(transition_prob_A[state_A_index + 1]),
                            next_B \in choice(transition_prob_B[state_B_index + 1]) :
                            simulation' = Some(chain_game(s1, next_A, next_B))
    /\ UNCHANGED <<n_classes, n_features, max_depth, root, X_train, y_train, X_test,
                   predictions, fits, call, raised, printed, kept, search>>

\* return outcomes, counts_B / return outcomes
SimulateReturn ==
    /\ simulation # None
    /\ The(simulation).game = The(simulation).n_iter
    /\ ~The(simulation).returned
    /\ simulation' = Some([The(simulation) EXCEPT !.returned = TRUE])
    /\ UNCHANGED <<n_classes, n_features, max_depth, root, X_train, y_train, X_test,
                   predictions, fits, call, raised, printed, kept, search>>

NextSimulate == SimulateCall \/ SimulateGame \/ SimulateReturn
SpecSimulate == Init /\ [][NextSimulate]_vars

-----------------------------------------------------------------------------
\* best_node_split, pass by pass.  search holds the locals of one of the
\* calls of best_node_split that build_tree made during the last fit, from
\* its entry to its return.

\* The calls of build_tree that made the nodes of a tree: the node each
\* call returned and the depth it was given.
RECURSIVE build_tree_calls(_, _)
build_tree_calls(node, depth) ==
    {[node |-> node, depth |-> depth]} \cup
    (IF node.left = None THEN {} ELSE build_tree_calls(The(node.left), depth + 1)) \cup
    (IF node.right = None THEN {} ELSE build_tree_calls(The(node.right), depth + 1))

\* The locals before the loop over the features.  rows and depth are not
\* locals of best_node_split: they are the rows and the depth of the
\* build_tree call that made this call.  won is not a local either: it
\* records the pass that last assigned best_feature.
best_node_split_entry(X, y, rows, depth, nc, nf, tie) ==
    [X |-> X, y |-> y, rows |-> rows, depth |-> depth,
     n_classes |-> nc, n_features |-> nf, tie |-> tie,
     n_observations |-> Len(X),
     class_counts |-> ClassCounts(y, nc),
     best |-> best_entry(X, y, nc),
     feature |-> None,
     midpoint_id |-> 0,
     sorted_indices |-> None,
     sorted_observations |-> None,
     sorted_classes |-> None,
     left_class_counts |-> None,
     right_class_counts |-> None,
     n_observations_left |-> None,
     n_observations_right |-> None,
     won |-> None,
     returned |-> FALSE]

\* for feature in range(self.n_features): the next feature, if any.
next_feature(s) == IF s.feature = None THEN 0 ELSE The(s.feature) + 1

\* for midpoint_id in range(1, n_observations): no midpoint is left.
walk_done(s) == s.feature = None \/ s.midpoint_id + 1 >= s.n_observations

\* if depth < self.max_depth: best_feature, best_threshold = self.best_node_split(X, y)
SearchCall ==
    /\ root # None
    /\ search = None
    /\ \E c \in build_tree_calls(The(root), 0), tie \in TieOrders :
          /\ may_split(c.depth, The(max_depth))
          /\ search' = Some(best_node_split_entry(Take(X_train, c.node.rows),
                                                  Take(y_train, c.node.rows),
                                                  c.node.rows, c.depth, The(n_classes),
                                                  The(n_features), tie))
    /\ UNCHANGED <<n_classes, n_features, max_depth, root, X_train, y_train, X_test,
                   predictions, fits, call, raised, printed, kept, simulation>>

\* Entry of the body of the loop over the features.
SearchFeature ==
    /\ search # None
    /\ ~The(search).returned
    /\ walk_done(The(search))
    /\ next_feature(The(search)) < The(search).n_features
    /\ LET s == The(search)
           entry == feature_entry(s.X, s.y, s.n_classes, next_feature(s), s.tie)
       IN  search' = Some([s EXCEPT !.feature = Some(next_feature(s)),
                                    !.midpoint_id = 0,
                                    !.sorted_indices = Some(entry.sorted_indices),
                                    !.sorted_observations = Some(entry.sorted_observations),
                                    !.sorted_classes = Some(entry.sorted_classes),
                                    !.left_class_counts = Some(entry.left_class_counts),
                                    !.right_class_counts = Some(entry.right_class_counts)])
    /\ UNCHANGED <<n_classes, n_features, max_depth, root, X_train, y_train, X_test,
                   predictions, fits, call, raised, printed, kept, simulation>>

\* One pass of the loop over the midpoints.
SearchMidpoint ==
    /\ search # None
    /\ ~The(search).returned
    /\ ~walk_done(The(search))
    /\ LET s == The(search)
           step == midpoint_step(The(s.feature), The(s.sorted_observations),
                                 The(s.sorted_classes), s.n_observations, s.n_classes,
                                 s.midpoint_id + 1, The(s.left_class_counts),
                                 The(s.right_class_counts), s.best)
       IN  search' = Some([s EXCEPT !.midpoint_id = @ + 1,
                                    !.left_class_counts = Some(step.left_class_counts),
                                    !.right_class_counts = Some(step.right_class_counts),
                                    !.n_observations_left = Some(step.n_observations_left),
                                    !.n_observations_right = Some(step.n_observations_right),
                                    !.best = step.best,
                                    !.won = IF step.best = s.best THEN @
                                            ELSE Some([feature |-> The(s.feature),
                                                       midpoint_id |-> s.midpoint_id + 1,
                                                       sorted_indices |-> The(s.sorted_indices),
                                                       left_class_counts |-> step.left_class_counts,
                                                       right_class_counts |-> step.right_class_counts])])
    /\ UNCHANGED <<n_classes, n_features, max_depth, root, X_train, y_train, X_test,
                   predictions, fits, call, raised, printed, kept, simulation>>

\* return best_feature, best_threshold
SearchReturn ==
    /\ search # None
    /\ ~The(search).returned
    /\ walk_done(The(search))
    /\ next_feature(The(search)) >= The(search).n_features
    /\ search' = Some([The(search) EXCEPT !.returned = TRUE])
    /\ UNCHANGED <<n_classes, n_features, max_depth, root, X_train, y_train, X_test,
                   predictions, fits, call, raised, printed, kept, simulation>>

\* fit, then one of the searches that fit made.
NextSearch == Fit \/ FitScenario \/ SearchCall \/ SearchFeature \/ SearchMidpoint \/ SearchReturn
SpecSearch == Init /\ [][NextSearch]_vars

\* The orders in which the caller may hand over the same n rows, the
\* order they are in left out.
Reorderings(n) ==
    {perm \in [1..n -> 1..n] :
        /\ \A i \in 1..n : \E k \in 1..n : perm[k] = i
        /\ \E k \in 1..n : perm[k] # k}

\* fit again, with the same max_depth, on the rows of the last fit handed
\* over in another order, X and y alike.
RefitReordered ==
    /\ root # None
    /\ fits < MaxFits + MaxRefits
    /\ \E perm \in Reorderings(Len(X_train)), tie \in TieOrders :
          FitWith(Take(X_train, perm), Take(y_train, perm), The(max_depth), tie)

NextReorder == Fit \/ FitScenario \/ RefitReordered
SpecReorder == Init /\ [][NextReorder]_vars

-----------------------------------------------------------------------------
\* Properties.  What follows describes a fitted tree from the training data,
\* without the search's running counts: a subset is a set of row numbers of
\* X_train, its impurity is counted from pairs of rows.

Fitted == root # None
Tree == The(root)

IsLeaf(nd) == nd.left = None /\ nd.right = None
IsSplit(nd) == nd.left # None /\ nd.right # None

\* Every node of tree t with its depth, t itself at depth d.
RECURSIVE Placed(_, _)
Placed(t, d) ==
    {[node |-> t, depth |-> d]} \cup
    (IF t.left = None THEN {} ELSE Placed(The(t.left), d + 1)) \cup
    (IF t.right = None THEN {} ELSE Placed(The(t.right), d + 1))

AllNodes == Placed(Tree, 0)

RowSet(nd) == {nd.rows[k] : k \in 1..Len(nd.rows)}
Val(i, f) == X_train[i][f + 1]
Features == 0..(The(n_features) - 1)

\* The number of ordered pairs of rows of S with different labels:
\* the Gini impurity of S is Discordant(S) / |S|^2.
Discordant(S) == Cardinality({p \in S \X S : y_train[p[1]] # y_train[p[2]]})

\* The candidate splits of S: a feature and two values a < b of it in S with
\* no value of S between them; the threshold is (a + b) / 2.
Candidates(S) ==
    {c \in [feature : Features, a : {Val(i, f) : i \in S, f \in Features},
            b : {Val(i, f) : i \in S, f \in Features}] :
        /\ c.a < c.b
        /\ \E i \in S : Val(i, c.feature) = c.a
        /\ \E i \in S : Val(i, c.feature) = c.b
        /\ \A i \in S : ~(c.a < Val(i, c.feature) /\ Val(i, c.feature) < c.b)}

Below(S, c) == {i \in S : 2 * Val(i, c.feature) < c.a + c.b}
Above(S, c) == {i \in S : 2 * Val(i, c.feature) > c.a + c.b}

\* The weighted impurity of candidate c, times |S|, as a quotient.
WNum(S, c) ==
    Discordant(Below(S, c)) * Cardinality(Above(S, c))
    + Discordant(Above(S, c)) * Cardinality(Below(S, c))
WDen(S, c) == Cardinality(Below(S, c)) * Cardinality(Above(S, c))

\* weighted impurity of c < impurity of S
Improving(S, c) ==
    Cardinality(S) * WNum(S, c) < Discordant(S) * WDen(S, c)

\* impurity of S <= weighted impurity of c
NotImproving(S, c) ==
    Discordant(S) * WDen(S, c) <= Cardinality(S) * WNum(S, c)

\* The candidate a split node stands for, if any.
CandidateOf(nd) ==
    {c \in Candidates(RowSet(nd)) :
        /\ c.feature = The(nd.feature_index)
        /\ The(nd.threshold).num * 2 = (c.a + c.b) * The(nd.threshold).den}

\* C1: no leaf of a fitted tree is deeper than max_depth (the root is at depth
\* 0), and a tree fitted with max_depth = 0 is a single Leaf.
DepthBound ==
    Fitted =>
        /\ \A p \in AllNodes : p.depth <= The(max_depth)
        /\ (The(max_depth) = 0 => IsLeaf(Tree))

\* A leaf sits at depth max_depth >= 1 and would have been split further:
\* its rows have both labels and two different values of a feature.
DepthBoundWitness ==
    /\ Fitted
    /\ The(max_depth) >= 1
    /\ \E p \in AllNodes :
        /\ p.depth = The(max_depth)
        /\ IsLeaf(p.node)
        /\ \E c \in Candidates(RowSet(p.node)) : Improving(RowSet(p.node), c)

\* C2: a node at depth d over subset S is a Split exactly when d < max_depth
\* and some candidate's weighted impurity is strictly below the impurity of S;
\* otherwise it is a Leaf, so a Leaf above max_depth has impurity <= the
\* weighted impurity of every candidate.
SplitIffImproving ==
    Fitted =>
        \A p \in AllNodes :
            LET S == RowSet(p.node)
            IN  /\ IsLeaf(p.node) \/ IsSplit(p.node)
                /\ IsSplit(p.node) <=>
                      (p.depth < The(max_depth) /\ \E c \in Candidates(S) : Improving(S, c))
                /\ (IsLeaf(p.node) /\ p.depth < The(max_depth)) =>
                      \A c \in Candidates(S) : NotImproving(S, c)

\* A Leaf above max_depth whose rows have both labels and a candidate, none
\* of which improves.
SplitIffImprovingWitness ==
    /\ Fitted
    /\ \E p \in AllNodes :
        /\ IsLeaf(p.node)
        /\ p.depth < The(max_depth)
        /\ Candidates(RowSet(p.node)) # {}
        /\ Discordant(RowSet(p.node)) > 0

Earlier(c1, c2) ==
    \/ c1.feature < c2.feature
    \/ c1.feature = c2.feature /\ c1.a < c2.a

\* weighted impurity of c1 <= (<, =) weighted impurity of c2, over the same S
WLeq(S, c1, c2) == WNum(S, c1) * WDen(S, c2) <= WNum(S, c2) * WDen(S, c1)
WLess(S, c1, c2) == WNum(S, c1) * WDen(S, c2) < WNum(S, c2) * WDen(S, c1)
WSame(S, c1, c2) == WNum(S, c1) * WDen(S, c2) = WNum(S, c2) * WDen(S, c1)

\* The nodes best_node_split was called for.
Searched == {p \in AllNodes : p.depth < The(max_depth)}

\* C5: best_node_split returns a candidate of minimal weighted impurity over
\* all candidates of all features when that minimum is strictly below the
\* subset's impurity, and (None, None) exactly when no candidate is.
GlobalBest ==
    Fitted =>
        \A p \in Searched :
            LET S == RowSet(p.node)
            IN  /\ IsSplit(p.node) =>
                      \E c \in CandidateOf(p.node) :
                          /\ Improving(S, c)
                          /\ \A c2 \in Candidates(S) : WLeq(S, c, c2)
                /\ IsLeaf(p.node) <=> \A c \in Candidates(S) : ~Improving(S, c)

\* The search passed an improving candidate, replaced it by a strictly
\* better one, and then met another improving candidate that is worse.
GlobalBestWitness ==
    /\ Fitted
    /\ \E p \in Searched :
        /\ IsSplit(p.node)
        /\ \E c \in CandidateOf(p.node), c1, c2 \in Candidates(RowSet(p.node)) :
            /\ Earlier(c1, c) /\ Earlier(c, c2)
            /\ Improving(RowSet(p.node), c1) /\ Improving(RowSet(p.node), c2)
            /\ WLess(RowSet(p.node), c, c1) /\ WLess(RowSet(p.node), c, c2)

\* C6: among the candidates of the same minimal weighted impurity the search
\* returns the first enumerated: the lowest feature index and, within it, the
\* smallest threshold.  With both features of the "tie" dataset separating
\* the classes, the split is on feature 0.
FirstMinimal ==
    Fitted =>
        /\ \A p \in Searched :
            IsSplit(p.node) =>
                \E c \in CandidateOf(p.node) :
                    \A c2 \in Candidates(RowSet(p.node)) :
                        WSame(RowSet(p.node), c, c2) => (c2 = c \/ Earlier(c, c2))
        /\ (X_train = TieX /\ y_train = TieY /\ The(max_depth) >= 1) =>
              /\ The(Tree.feature_index) = 0
              /\ The(Tree.threshold).num = 5 * The(Tree.threshold).den

\* A Split for which a candidate of another feature and a later candidate of
\* the same feature both have the weighted impurity of the one chosen.
FirstMinimalWitness ==
    /\ Fitted
    /\ \E p \in Searched :
        /\ IsSplit(p.node)
        /\ \E c \in CandidateOf(p.node), c1, c2 \in Candidates(RowSet(p.node)) :
            /\ c1.feature = c.feature /\ c1 # c /\ WSame(RowSet(p.node), c, c1)
            /\ c2.feature # c.feature /\ WSame(RowSet(p.node), c, c2)

\* C7: fitted on X = [[1.0],[2.0],[3.0],[4.0]], y = [0,0,1,1] with
\* max_depth = 1, the root is a Split on feature 0 at threshold 2.5 (5 units
\* of 0.5) between a Leaf of class 0 and a Leaf of class 1, and
\* predict([[1.5],[3.5]]) returns [0, 1].
ConcreteScenario ==
    (Fitted /\ X_train = ScenarioX /\ y_train = ScenarioY /\ The(max_depth) = 1) =>
        /\ IsSplit(Tree)
        /\ Tree.feature_index = Some(0)
        /\ The(Tree.threshold).num = 5 * The(Tree.threshold).den
        /\ IsLeaf(The(Tree.left)) /\ The(Tree.left).majority_class = 0
        /\ IsLeaf(The(Tree.right)) /\ The(Tree.right).majority_class = 1
        /\ (X_test = ScenarioTest => predictions = <<0, 1>>)

\* The scenario's fit followed by the scenario's predict.
ConcreteScenarioWitness ==
    /\ Fitted /\ X_train = ScenarioX /\ y_train = ScenarioY /\ The(max_depth) = 1
    /\ X_test = ScenarioTest
    /\ Len(predictions) = 2

\* The number of rows of subset S with label c.
CountOf(S, c) == Cardinality({i \in S : y_train[i] = c})

\* C8: the majority_class of every node, Leaf or Split, has the highest count
\* among the labels of the node's training subset, and is the smallest class
\* index with that count.
MajorityClass ==
    Fitted =>
        \A p \in AllNodes :
            LET S == RowSet(p.node)
                m == p.node.majority_class
            IN  /\ m \in 0..(The(n_classes) - 1)
                /\ \A c \in 0..(The(n_classes) - 1) : CountOf(S, c) <= CountOf(S, m)
                /\ \A c \in 0..(m - 1) : CountOf(S, c) < CountOf(S, m)

\* A Split whose subset has as many rows of class 0 as of class 1: its
\* majority_class is 0, and one of its children has majority_class 1.
MajorityClassWitness ==
    /\ Fitted
    /\ \E p \in AllNodes :
        /\ IsSplit(p.node)
        /\ CountOf(RowSet(p.node), 0) = CountOf(RowSet(p.node), 1)
        /\ p.node.majority_class = 0
        /\ The(p.node.right).majority_class = 1

\* The leaves the routing rule leads to from node t for an observation: left
\* when observation[feature_index] <= threshold, right otherwise.
RECURSIVE RouteLeaves(_, _)
RouteLeaves(t, obs) ==
    IF IsLeaf(t) THEN {t}
    ELSE (IF obs[The(t.feature_index) + 1] * The(t.threshold).den <= The(t.threshold).num
          THEN RouteLeaves(The(t.left), obs) ELSE {})
         \cup
         (IF obs[The(t.feature_index) + 1] * The(t.threshold).den > The(t.threshold).num
          THEN RouteLeaves(The(t.right), obs) ELSE {})

\* C9: predict returns one label per row, in row order: the majority_class
\* of the Leaf reached from the root by going left at a Split when
\* observation[feature_index] <= threshold and right otherwise.
PredictRoutes ==
    Fitted =>
        /\ Len(predictions) = Len(X_test)
        /\ \A i \in 1..Len(X_test) :
              \E leaf \in RouteLeaves(Tree, X_test[i]) :
                  /\ RouteLeaves(Tree, X_test[i]) = {leaf}
                  /\ predictions[i] = leaf.majority_class

\* An observation whose value equals the root's threshold was given the
\* class of the left Leaf, which is not the class of the right Leaf.
PredictRoutesWitness ==
    /\ Fitted
    /\ IsSplit(Tree) /\ IsLeaf(The(Tree.left)) /\ IsLeaf(The(Tree.right))
    /\ The(Tree.left).majority_class # The(Tree.right).majority_class
    /\ Len(X_test) >= 1
    /\ X_test[1][The(Tree.feature_index) + 1] * The(Tree.threshold).den = The(Tree.threshold).num
    /\ predictions[1] = The(Tree.left).majority_class

\* The nodes the routing rule visits from node t for an observation.
RECURSIVE RoutePath(_, _)
RoutePath(t, obs) ==
    IF IsLeaf(t) THEN {t}
    ELSE {t} \cup
         (IF obs[The(t.feature_index) + 1] * The(t.threshold).den <= The(t.threshold).num
          THEN RoutePath(The(t.left), obs)
          ELSE RoutePath(The(t.right), obs))

-----------------------------------------------------------------------------
\* C11: fit is deterministic.  A fit on the same X, y and max_depth as the fit
\* that built the stored tree builds a tree identical to it node for node
\* (threshold, feature, majority class, children, training rows), whatever
\* order the sort leaves rows of equal value in, and also when the classifier
\* was fitted before.
FitDeterministic ==
    [][(/\ root # None
        /\ call'.op = "fit"
        /\ raised' = None
        /\ call'.X = X_train
        /\ call'.y = y_train
        /\ call'.max_depth = max_depth) => root' = root]_vars

\* A second fit has built a Split from a column in which two rows of
\* different class hold the same value, so that the order of the sort shows.
FitDeterministicWitness ==
    /\ Fitted
    /\ fits > 1
    /\ call.op = "fit"
    /\ IsSplit(Tree)
    /\ \E i \in RowSet(Tree) : \E j \in RowSet(Tree) :
          /\ i # j
          /\ Val(i, The(Tree.feature_index)) = Val(j, The(Tree.feature_index))
          /\ y_train[i] # y_train[j]

-----------------------------------------------------------------------------
-----------------------------------------------------------------------------
\* The last call was a fit on an empty dataset, on an X and a y that differ in
\* their number of rows, or with a negative max_depth.
InvalidFit ==
    /\ call.op = "fit"
    /\ \/ Len(call.X) = 0
       \/ Len(call.X) # Len(call.y)
       \/ The(call.max_depth) < 0

\* C13: fit fails with an error and builds no tree when the dataset is empty,
\* when X and y differ in their number of rows, or when max_depth is
\* negative: the call ends with an exception and leaves the stored root as it
\* was.
InvalidFitFails ==
    [][InvalidFit' => (raised' # None /\ root' = root)]_vars

\* A fit with a negative max_depth on a new classifier has ended without an
\* exception and has stored a tree.
InvalidFitBuildsTree ==
    /\ InvalidFit
    /\ The(call.max_depth) < 0
    /\ fits = 1
    /\ raised = None
    /\ root # None
    /\ IsLeaf(Tree)

-----------------------------------------------------------------------------
\* The last call was a predict on a matrix whose number of columns is not
\* n_features.
WrongWidthPredict ==
    /\ call.op = "predict"
    /\ Len(call.X) > 0
    /\ Len(call.X[1]) # The(n_features)

\* C14: predict on a matrix whose column count differs from n_features, be it
\* smaller or larger, fails with an error and leaves the tree unchanged.
WrongColumnsFail ==
    [][WrongWidthPredict' => (raised' # None /\ root' = root)]_vars

\* predict on a matrix with a column more than n_features has walked a Split
\* and has returned a label without an exception.
WrongColumnsReturnLabels ==
    /\ WrongWidthPredict
    /\ Len(call.X[1]) = The(n_features) + 1
    /\ IsSplit(Tree)
    /\ raised = None
    /\ Len(predictions) = 1

-----------------------------------------------------------------------------
\* C15: a fit that fails on a fitted classifier leaves root, n_features,
\* n_classes and max_depth as the last successful fit stored them, so that
\* they still belong to one and the same fit.
FailedFitKeepsState ==
    [][(root # None /\ call'.op = "fit" /\ raised' # None)
          => (/\ root' = root
              /\ n_features' = n_features
              /\ n_classes' = n_classes
              /\ max_depth' = max_depth)]_vars

\* After a fit that raised, the stored tree is the old one and has a Split on
\* a feature index that the stored n_features no longer admits.
FailedFitMixesState ==
    /\ Fitted
    /\ call.op = "fit"
    /\ raised # None
    /\ The(n_features) # Len(X_train[1])
    /\ \E p \in AllNodes : IsSplit(p.node) /\ The(p.node.feature_index) >= The(n_features)

-----------------------------------------------------------------------------
-----------------------------------------------------------------------------
-----------------------------------------------------------------------------
\* Rendering.  Columns are counted from 0: column c of a line is its
\* character c + 1.

Rendering(nd) == print_tree_aux(nd)

At(line, c) == line[c + 1]

\* The number a string of decimal digits reads as, or -1 when the string is
\* empty, holds another character, or has a needless leading zero.
DigitValue(ch) ==
    CASE ch = "0" -> 0 [] ch = "1" -> 1 [] ch = "2" -> 2 [] ch = "3" -> 3 [] ch = "4" -> 4
      [] ch = "5" -> 5 [] ch = "6" -> 6 [] ch = "7" -> 7 [] ch = "8" -> 8 [] ch = "9" -> 9
      [] OTHER -> 0 - 1

RECURSIVE ReadDigits(_)
ReadDigits(str) ==
    IF str = <<>> THEN 0
    ELSE 10 * ReadDigits(SubSeq(str, 1, Len(str) - 1)) + DigitValue(str[Len(str)])

ReadInt(str) ==
    IF \/ str = <<>>
       \/ \E k \in 1..Len(str) : DigitValue(str[k]) < 0
       \/ (Len(str) > 1 /\ str[1] = "0")
    THEN 0 - 1
    ELSE ReadDigits(str)

\* C18: the rendering of a Leaf is the single line "c: <majority_class>";
\* its width is the length of that line, its height is 1, and its root offset
\* is the width divided by 2, rounded down.
LeafRendering ==
    Fitted =>
        \A p \in AllNodes :
            IsLeaf(p.node) =>
                LET r == Rendering(p.node)
                IN  /\ Len(r.lines) = 1
                    /\ SubSeq(r.lines[1], 1, 3) = <<"c", ":", " ">>
                    /\ ReadInt(SubSeq(r.lines[1], 4, Len(r.lines[1]))) = p.node.majority_class
                    /\ r.width = Len(r.lines[1])
                    /\ r.height = 1
                    /\ 2 * r.middle <= r.width
                    /\ r.width < 2 * r.middle + 2

\* print_tree has printed a tree that is a single Leaf of class 1: the one
\* line "c: 1".
LeafRenderingWitness ==
    /\ Fitted
    /\ IsLeaf(Tree)
    /\ Tree.majority_class = 1
    /\ printed = Some(<<<<"c", ":", " ", "1">>>>)

-----------------------------------------------------------------------------
\* The string reads as the label of the Split: "f: ", the decimal digits of
\* its feature index, ", t: ", and a decimal number with one digit after the
\* point whose value is the threshold.
ReadsAsLabel(str, nd) ==
    \E k \in 4..Len(str) :
        /\ str[k] = ","
        /\ \E d \in (k + 5)..Len(str) :
              /\ str[d] = "."
              /\ d + 1 = Len(str)
              /\ SubSeq(str, 1, 3) = <<"f", ":", " ">>
              /\ ReadInt(SubSeq(str, 4, k - 1)) = The(nd.feature_index)
              /\ SubSeq(str, k, k + 4) = <<",", " ", "t", ":", " ">>
              /\ ReadInt(SubSeq(str, k + 5, d - 1)) >= 0
              /\ DigitValue(str[d + 1]) >= 0
              /\ (10 * ReadInt(SubSeq(str, k + 5, d - 1)) + DigitValue(str[d + 1]))
                     * The(nd.threshold).den = 10 * The(nd.threshold).num

\* The columns <<first, last>> between which the line holds the label of the
\* Split.
LabelSpans(line, nd) ==
    {span \in (0..(Len(line) - 1)) \X (0..(Len(line) - 1)) :
        /\ span[1] <= span[2]
        /\ At(line, span[1]) = "f"
        /\ DigitValue(At(line, span[2])) >= 0
        /\ ReadsAsLabel(SubSeq(line, span[1] + 1, span[2] + 1), nd)}

Splits == {p.node : p \in {q \in AllNodes : IsSplit(q.node)}}

\* C19: in the rendering of every Split the second line holds exactly one '/'
\* and one '\' and otherwise spaces; the '/' is in the column of the left
\* child's root offset, the '\' in the column of the right child's root
\* offset moved right by the left child's width and the width of the label.
\* A Split of two Leaves renders as exactly 3 lines, the first of which
\* contains the label "f: <feature_index>, t: <threshold>".
BranchGlyphs ==
    Fitted =>
        \A nd \in Splits :
            LET r == Rendering(nd)
                l == Rendering(The(nd.left))
                rr == Rendering(The(nd.right))
            IN  /\ Len(r.lines) >= 2
                /\ LabelSpans(r.lines[1], nd) # {}
                /\ \A span \in LabelSpans(r.lines[1], nd) :
                      LET u == span[2] - span[1] + 1
                      IN  /\ Len(r.lines[2]) = l.width + u + rr.width
                          /\ \A c \in 0..(Len(r.lines[2]) - 1) :
                                At(r.lines[2], c) =
                                    IF c = l.middle THEN "/"
                                    ELSE IF c = l.width + u + rr.middle THEN "\\"
                                    ELSE " "
                /\ (IsLeaf(The(nd.left)) /\ IsLeaf(The(nd.right))) =>
                       (Len(r.lines) = 3 /\ r.height = 3)

\* print_tree has printed a Split of two Leaves: 3 lines of 20 characters,
\* the second holding '/' in column 2 and '\' in column 18.
BranchGlyphsWitness ==
    /\ Fitted
    /\ IsSplit(Tree)
    /\ IsLeaf(The(Tree.left))
    /\ IsLeaf(The(Tree.right))
    /\ printed # None
    /\ Len(The(printed)) = 3
    /\ The(printed)[2] =
           [c \in 1..20 |-> IF c = 3 THEN "/" ELSE IF c = 19 THEN "\\" ELSE " "]
    /\ The(printed)[3] = <<"c", ":", " ", "0">> \o [c \in 1..12 |-> " "] \o <<"c", ":", " ", "1">>

-----------------------------------------------------------------------------
\* C20, as stated: the first line of the rendering of a Split is a connector
\* of underscores that runs from the left subtree's root offset to the right
\* subtree's root offset, with the label centered between those two offsets
\* (as many underscores on its left as on its right, give or take one), and
\* the root offset reported for the Split is the column of the label's
\* centre.
LabelCentred ==
    Fitted =>
        \A nd \in Splits :
            LET r == Rendering(nd)
                l == Rendering(The(nd.left))
                rr == Rendering(The(nd.right))
            IN  \A span \in LabelSpans(r.lines[1], nd) :
                    LET u == span[2] - span[1] + 1
                        from == l.middle
                        to == l.width + u + rr.middle
                        before == span[1] - from - 1
                        after == to - span[2] - 1
                    IN  /\ \A c \in (from + 1)..(to - 1) :
                              (c < span[1] \/ c > span[2]) => At(r.lines[1], c) = "_"
                        /\ before - after <= 1
                        /\ after - before <= 1
                        /\ r.middle = span[1] + u \div 2

\* C20, amended: the first line of the rendering of a Split is as wide as the
\* left block, the label and the right block together.  It holds spaces up to
\* and including the left subtree's root offset, underscores from the next
\* column to the end of the left block, the label in the columns between the
\* two blocks, underscores from the start of the right block up to the column
\* before the right subtree's root offset, and spaces from that offset on.
\* The root offset reported for the Split is the column of the label's
\* centre: the left width plus half the label width, rounded down.
ConnectorLayout ==
    Fitted =>
        \A nd \in Splits :
            LET r == Rendering(nd)
                l == Rendering(The(nd.left))
                rr == Rendering(The(nd.right))
            IN  /\ LabelSpans(r.lines[1], nd) # {}
                /\ \A span \in LabelSpans(r.lines[1], nd) :
                      LET u == span[2] - span[1] + 1
                          from == l.middle
                          to == l.width + u + rr.middle
                      IN  /\ span[1] = l.width
                          /\ Len(r.lines[1]) = l.width + u + rr.width
                          /\ r.width = Len(r.lines[1])
                          /\ \A c \in 0..(Len(r.lines[1]) - 1) :
                                (c < span[1] \/ c > span[2]) =>
                                    At(r.lines[1], c) =
                                        IF from < c /\ c < to THEN "_" ELSE " "
                          /\ r.middle = span[1] + u \div 2

\* print_tree has printed a tree whose root has a Leaf on the left and a
\* Split on the right: the root's label has 1 underscore on its left and 10
\* on its right.
ConnectorLayoutWitness ==
    /\ Fitted
    /\ IsSplit(Tree)
    /\ IsLeaf(The(Tree.left))
    /\ IsSplit(The(Tree.right))
    /\ printed # None
    /\ SubSeq(The(printed)[1], 1, 5) = <<" ", " ", " ", "_", "f">>
    /\ SubSeq(The(printed)[1], 17, 27) = [c \in 1..11 |-> IF c = 11 THEN " " ELSE "_"]

-----------------------------------------------------------------------------
\* simulate with learn set.

Learning == simulation # None /\ The(simulation).learn

\* C21: in a learning simulation, after every game from the second on, the
\* action chosen for A for the next game wins against the action predicted
\* for B: compare(state_A, predicted_state_B) returns 'A'.
WinsAgainstPrediction ==
    (Learning /\ The(simulation).game >= 2)
        => compare(The(simulation).state_A, The(The(simulation).predicted_state_B)) = "A"

\* A learning simulation after its second game, A's next action losing
\* against the action predicted for B.
LosesAgainstPrediction ==
    /\ Learning
    /\ The(simulation).game >= 2
    /\ compare(The(simulation).state_A, The(The(simulation).predicted_state_B)) = "B"

\* The games t of 2..n in which B played from after playing prev in game t - 1.
TransitionsOfB(s, prev, from) ==
    {t \in 2..Len(s.played_B) : s.played_B[t - 1] = prev /\ s.played_B[t] = from}

CountsSum(counts) ==
    counts[1][1] + counts[1][2] + counts[1][3] + counts[2][1] + counts[2][2] + counts[2][3]
        + counts[3][1] + counts[3][2] + counts[3][3]

Returned == Learning /\ The(simulation).returned /\ The(simulation).n_iter >= 1

-----------------------------------------------------------------------------
\* The search of best_node_split, pass by pass.

Searching == search # None
Walking == Searching /\ The(search).feature # None

\* The value of row k of the search's X on the feature being walked.
WalkedValue(s, k) == s.X[k][The(s.feature) + 1]

\* order lists every row of the search once, in ascending order of the
\* feature being walked.
SortsRows(s, order) ==
    /\ Len(order) = s.n_observations
    /\ {order[k] : k \in 1..Len(order)} = 1..s.n_observations
    /\ \A k \in 1..(Len(order) - 1) : WalkedValue(s, order[k]) <= WalkedValue(s, order[k + 1])

\* The number of rows of class c among the first i rows of order.
HistogramOf(s, order, i, c) == Cardinality({k \in 1..i : s.y[order[k]] = c})

RECURSIVE SumUpTo(_, _)
SumUpTo(a, c) == IF c < 0 THEN 0 ELSE a[c] + SumUpTo(a, c - 1)

\* C23: during the walk over a feature, after the counts are moved at
\* candidate i (skipped or not), left_class_counts is the class histogram of
\* the first i rows in sorted order, left and right add up to class_counts
\* class by class, left sums to i and right to n - i, and no count is
\* negative; at the start of every feature (i = 0) left is all zeros and right
\* equals class_counts, whatever the walk of the feature before left behind.
RunningCounts ==
    Walking =>
        LET s == The(search)
            i == s.midpoint_id
            classes == 0..(s.n_classes - 1)
            left == The(s.left_class_counts)
            right == The(s.right_class_counts)
        IN  /\ SortsRows(s, The(s.sorted_indices))
            /\ \A c \in classes :
                  /\ left[c] = HistogramOf(s, The(s.sorted_indices), i, c)
                  /\ left[c] + right[c] = Cardinality({k \in 1..s.n_observations : s.y[k] = c})
                  /\ left[c] + right[c] = s.class_counts[c]
                  /\ left[c] >= 0
                  /\ right[c] >= 0
            /\ SumUpTo(left, s.n_classes - 1) = i
            /\ SumUpTo(right, s.n_classes - 1) = s.n_observations - i
            /\ i = 0 => (\A c \in classes : left[c] = 0 /\ right[c] = s.class_counts[c])

\* The walk over the second feature of three rows of two classes stands at
\* its second candidate, which is skipped, with both classes on the left.
RunningCountsWitness ==
    /\ Walking
    /\ The(search).feature = Some(1)
    /\ The(search).n_observations = 3
    /\ The(search).midpoint_id = 2
    /\ The(The(search).sorted_observations)[2] = The(The(search).sorted_observations)[3]
    /\ The(The(search).left_class_counts)[0] = 1
    /\ The(The(search).left_class_counts)[1] = 1
    /\ The(The(search).right_class_counts)[1] = 1

SearchOnlyBelowMaxDepth ==
    /\ Searching => The(search).depth < The(max_depth)
    /\ (Fitted /\ max_depth = Some(0)) => (~Searching /\ IsLeaf(Tree))
    /\ Fitted => \A p \in AllNodes : p.depth = The(max_depth) => IsLeaf(p.node)

\* With max_depth = 1 the search of the root has returned and split it; the
\* right child, at depth 1, holds two rows that differ in label and in the
\* value of feature 0, and is a Leaf.
SearchOnlyBelowMaxDepthWitness ==
    /\ Fitted
    /\ max_depth = Some(1)
    /\ IsSplit(Tree)
    /\ Searching
    /\ The(search).depth = 0
    /\ The(search).returned
    /\ LET nd == The(Tree.right)
       IN  /\ IsLeaf(nd)
           /\ Len(nd.rows) = 2
           /\ y_train[nd.rows[1]] # y_train[nd.rows[2]]
           /\ Val(nd.rows[1], 0) # Val(nd.rows[2], 0)

\* The build_tree calls of the last fit that made the search s.
CallsOf(s) == {p \in AllNodes : p.node.rows = s.rows /\ p.depth = s.depth}

-----------------------------------------------------------------------------
\* The geometry of the blocks of _print_tree_aux.

Blank(k) == [c \in 1..k |-> " "]

Larger(a, b) == IF a < b THEN b ELSE a

\* C26: the block _print_tree_aux returns for every node of the tree is a
\* rectangle: as many lines as the returned height, every line as long as the
\* returned width, and the root's offset within 0..width-1.  A Leaf's block
\* has one line.  A Split's width is the left width plus the label's plus the
\* right width, its height the larger child height plus 2, and below its two
\* head lines each child's block stands in its own columns, a shorter block
\* continued with blank lines of its own width.
RectangularBlocks ==
    Fitted =>
        \A p \in AllNodes :
            LET nd == p.node
                b == Rendering(nd)
            IN  /\ Len(b.lines) = b.height
                /\ \A k \in 1..Len(b.lines) : Len(b.lines[k]) = b.width
                /\ 0 <= b.middle
                /\ b.middle < b.width
                /\ IsLeaf(nd) => b.height = 1
                /\ IsSplit(nd) =>
                      LET l == Rendering(The(nd.left))
                          r == Rendering(The(nd.right))
                          u == Len(split_label(nd))
                      IN  /\ b.width = l.width + u + r.width
                          /\ b.height = Larger(l.height, r.height) + 2
                          /\ \A k \in 1..(b.height - 2) :
                                /\ SubSeq(b.lines[k + 2], 1, l.width)
                                      = IF k <= l.height THEN l.lines[k] ELSE Blank(l.width)
                                /\ SubSeq(b.lines[k + 2], l.width + 1, l.width + u) = Blank(u)
                                /\ SubSeq(b.lines[k + 2], l.width + u + 1, b.width)
                                      = IF k <= r.height THEN r.lines[k] ELSE Blank(r.width)

\* print_tree has written a tree whose root has a Leaf on the left and a
\* Split on the right: five lines, the last two blank under the Leaf.
RectangularBlocksWitness ==
    /\ Fitted
    /\ IsSplit(Tree)
    /\ IsLeaf(The(Tree.left))
    /\ IsSplit(The(Tree.right))
    /\ printed # None
    /\ Len(The(printed)) = 5
    /\ SubSeq(The(printed)[5], 1, 4) = Blank(4)
    /\ The(printed) = Rendering(Tree).lines

-----------------------------------------------------------------------------
\* Labels that predict can return.

LabelsOfY == {y_train[i] : i \in 1..Len(y_train)}

-----------------------------------------------------------------------------
\* The order of the training rows.

\* A tree without the rows of its nodes: feature_index, threshold and
\* majority_class of every node, in place.
RECURSIVE Shape(_)
Shape(nd) ==
    [threshold |-> nd.threshold,
     feature_index |-> nd.feature_index,
     majority_class |-> nd.majority_class,
     left |-> IF nd.left = None THEN None ELSE Some(Shape(The(nd.left))),
     right |-> IF nd.right = None THEN None ELSE Some(Shape(The(nd.right)))]

\* X2, y2 are the rows of X1, y1 in some order, each row with its label.
SameRows(X1, y1, X2, y2) ==
    /\ Len(X1) = Len(X2)
    /\ \E perm \in [1..Len(X1) -> 1..Len(X1)] :
          /\ \A i \in 1..Len(X1) : \E k \in 1..Len(X1) : perm[k] = i
          /\ \A k \in 1..Len(X1) : X2[k] = X1[perm[k]] /\ y2[k] = y1[perm[k]]

\* C28: a fit on the rows of the fit before it, in any order and with the
\* same max_depth, builds a structurally identical tree (feature_index,
\* threshold and majority_class of every node), whatever order the sorts
\* give to equal values in either fit.
OrderIndependent ==
    [][(/\ Fitted
        /\ fits' = fits + 1
        /\ max_depth' = max_depth
        /\ SameRows(X_train, y_train, X_train', y_train'))
         => Shape(The(root')) = Shape(Tree)]_vars

\* A second fit has built a tree of depth 2 from three rows, each of another
\* value of feature 0, handed over in descending order.
OrderIndependentWitness ==
    /\ Fitted
    /\ fits = 2
    /\ Len(X_train) = 3
    /\ Val(1, 0) > Val(2, 0)
    /\ Val(2, 0) > Val(3, 0)
    /\ IsSplit(Tree)
    /\ IsSplit(The(Tree.left)) \/ IsSplit(The(Tree.right))

-----------------------------------------------------------------------------
\* Termination of build_tree and predict.

Smaller(a, b) == IF a < b THEN a ELSE b

\* The number of Split nodes predict passes on its way to a Leaf of nd.
RECURSIVE WalkLength(_, _)
WalkLength(nd, observation) ==
    IF IsLeaf(nd) THEN 0
    ELSE IF ValLE(observation[The(nd.feature_index) + 1], The(nd.threshold))
         THEN 1 + WalkLength(The(nd.left), observation)
         ELSE 1 + WalkLength(The(nd.right), observation)

====
